---- MODULE Spec2Model ----
(***************************************************************************)
(* Model of the GRBL transmission engine (class GrblWorker of              *)
(* GRBL-Mini-Sender.py), the operator interface that feeds its command     *)
(* channel, and the controller at the other end of the serial link.        *)
(*                                                                         *)
(* A program line is represented by the byte length of its payload (text   *)
(* plus the "\n" terminator); 0 stands for a blank line of the job file.   *)
(* The worker thread is sequential; pc records where it stands:            *)
(*   "init"    before GrblWorker.run has called open()                     *)
(*   "loop"    at the head of the main loop (while self.running)           *)
(*   "get"     blocked in tx_queue.get(timeout)                            *)
(*   "wait"    inside _read_sync_response, for the caller named by waitCtx *)
(*   "stream"  transient: command dispatch is over, the stream step is due *)
(*   "drain"   after the stream step, before poll / drain / accounting     *)
(*   "done"    run() has returned                                          *)
(*   "crashed" run() was left by an exception nobody caught                *)
(***************************************************************************)
EXTENDS Integers, Sequences, FiniteSets, TLC

\* ---------------------------------------------------------------- bounds
MaxQueue == 1       \* commands waiting in tx_queue at one time
MaxRx == 2          \* controller responses arriving between two serial reads
MaxFaults == 1      \* serial I/O failures injected over one behaviour
RxBufferCfg == 32   \* configured rx_buffer_bytes
CmdLen == 3         \* payload length of an operator line such as "$X\n"

\* ------------------------------------------------------- program constants
BufMin == 32
BufMax == 4096
PlannerFreeMinCfg == 2

\* The sanitized job file: payload length of each line, 0 = blank line.
JobFile == <<16, 16, 0, 40>>
\* Number of non-blank lines, as counted when the file was prepared.
JobTotal == Cardinality({ i \in 1..Len(JobFile) : JobFile[i] # 0 })
\* Status reports the controller can emit, with their Bf:planner_free,rx_free
\* field: a full planner, and a free planner with a large receive buffer.
StatusReports ==
    { [k |-> "st", len |-> 0, src |-> "-", bf |-> TRUE, pf |-> 1, rxf |-> 20],
      [k |-> "st", len |-> 0, src |-> "-", bf |-> TRUE, pf |-> 5, rxf |-> 48] }

VARIABLES
    w,              \* the GrblWorker object, the link it writes to, and a
                    \* summary of the events it has published (fields below)
    tx_queue,       \* command channel (interface -> engine)
    cmdsLeft,       \* commands the operator has still to submit
    disconnecting,  \* App._disconnecting
    text,           \* the line handed to the status parser or the sanitizer
    result          \* what the parser or the sanitizer returned for it

vars == << w, tx_queue, cmdsLeft, disconnecting, text, result >>

(***************************************************************************)
(* Fields of w.                                                            *)
(*  GrblWorker:  pc, waitCtx, macroRest, running, ser, job_active,         *)
(*    job_paused, pause_mode, stream_mode, job_total, job_sent, job_ok,    *)
(*    inflight (_inflight_bytes), pending (_pending_lengths),              *)
(*    buffer_total (_buffer_total), bf_seen, bf_warned, last_planner_free, *)
(*    fh (job file open), fpos (lines of the job file consumed),           *)
(*    use_bf_autosize, use_planner_throttle, planner_free_min,             *)
(*    cancel_unlock                                                        *)
(*  serial link:  ctrlq (the lines written to the controller whose         *)
(*    response the engine has not read yet, oldest first, each with its    *)
(*    payload length and its origin: "win" a windowed job line, "sync" a   *)
(*    job line sent with the synchronous protocol, "cmd" any other line),  *)
(*    statusReq (a '?' has been written, status reports are arriving),     *)
(*    lastRt (last real-time byte written, '?' aside)                      *)
(*  event channel, summarised:  lastJobState, lastError, lastProgress,     *)
(*    lastJobLine (last event of each kind), finishMsg (msg of the last    *)
(*    finish_job call), completions ("Job complete" events since the last  *)
(*    job start)                                                           *)
(*  history:  sentLog (indices of the job-file lines written for the       *)
(*    current job), rewound (the current job has rewound its source),      *)
(*    resumed (the current job was paused and resumed), faults (serial I/O *)
(*    failures so far), ioFailed (one of them happened in the main loop),  *)
(*    lastStep (the last operation the engine carried out)                 *)
(***************************************************************************)

\* ---------------------------------------------------------------- helpers
RECURSIVE SumSeq(_)
SumSeq(s) == IF s = <<>> THEN 0 ELSE Head(s) + SumSeq(Tail(s))

Max(a, b) == IF a >= b THEN a ELSE b
Min(a, b) == IF a <= b THEN a ELSE b

clamp(v, lo, hi) == Max(lo, Min(hi, v))

Cmd(kind) == [kind |-> kind, mode |-> "-", bad |-> FALSE, len |-> 0]

Line == [Cmd("line") EXCEPT !.len = CmdLen]
Start(m) == [Cmd("start_job_file") EXCEPT !.mode = m]
\* What the operator does over one connection: each scenario is a set of
\* commands, submitted at most once each, in any order and at any moment
\* (shutdown stands for App.disconnect or App.on_close).
Scenarios ==
    { { Start("buffered"), Cmd("pause_local"), Cmd("resume_local") },
      { Start("sync"), Cmd("hold_local"), Cmd("resume_local") },
      { Start("buffered"), Line },
      { Start("buffered"), Cmd("cancel_job") },
      { Start("sync"), Line, Cmd("soft_reset") },
      { Start("buffered"), Start("sync"), Cmd("realtime") },
      { Start("bogus"), Cmd("run_lines_blocking"),
        [Cmd("start_job_file") EXCEPT !.mode = "sync", !.bad = TRUE] },
      { Start("sync"), Cmd("shutdown") },
      { Start("buffered"), Cmd("shutdown") } }

\* Settings handed to the constructor: everything enabled, or nothing.
Configs ==
    { [ use_bf_autosize |-> b, use_planner_throttle |-> b, cancel_unlock |-> b ]
      : b \in BOOLEAN }


\* ------------------------------------------------------------ event output
put_job_state(s, x) == [s EXCEPT !.lastJobState = x]
put_error(s, x)     == [s EXCEPT !.lastError = x]
put_progress(s, done, total) == [s EXCEPT !.lastProgress = <<done, total>>]

_push_job_line(s) ==
    [s EXCEPT !.lastJobLine = <<s.job_sent, s.job_ok, s.job_total>>]

\* ------------------------------------------------------------- serial link
\* send_line: the controller receives one more line.
send_line(s, ln, src) ==
    [s EXCEPT !.ctrlq = Append(@, [len |-> ln, src |-> src])]

\* send_realtime: '?' asks for a status report; Ctrl-X resets the
\* controller, which drops the lines it has not answered yet: only the
\* oldest `keep` lines, answered already, still have a response under way.
send_realtime(s, b, keep) ==
    CASE b = "RT_STATUS" -> [s EXCEPT !.statusReq = TRUE]
      [] b = "CTRL_X"    -> [s EXCEPT !.lastRt = b,
                                      !.ctrlq = SubSeq(@, 1, Min(keep, Len(@)))]
      [] OTHER           -> [s EXCEPT !.lastRt = b]

\* A serial read or write raised an exception.
io_fault(s) == [s EXCEPT !.faults = @ + 1, !.ioFailed = TRUE]

\* ------------------------------------------------------------ job file
_close_job_file(s) == [s EXCEPT !.fh = FALSE]
\* ------------------------------------------------------------ job lifecycle
\* start_job_from_file as it would be if it took the stream mode as given.
start_job_from_file_AnyMode(s, total, mode, bad) ==
    LET s1 == [s EXCEPT !.job_total = total, !.job_sent = 0, !.job_ok = 0,
                        !.job_active = TRUE, !.job_paused = FALSE,
                        !.pause_mode = "paused", !.stream_mode = mode,
                        !.inflight = 0, !.pending = <<>>,
                        !.sentLog = <<>>, !.completions = 0,
                        !.finishMsg = "none",
                        !.rewound = FALSE, !.resumed = FALSE]
    IN  IF bad THEN _close_job_file(s1)
        ELSE _push_job_line(
                 put_progress(
                     put_job_state(([_close_job_file(s1) EXCEPT !.fh = TRUE, !.fpos = 0]), "running"),
                     0, s1.job_total))

start_job_from_file(s, total, mode, bad) ==
    LET s1 == [s EXCEPT !.job_total = total, !.job_sent = 0, !.job_ok = 0,
                        !.job_active = TRUE, !.job_paused = FALSE,
                        !.pause_mode = "paused",
                        !.stream_mode = IF mode \in {"sync", "buffered"}
                                        THEN mode ELSE "sync",
                        !.inflight = 0, !.pending = <<>>,
                        !.sentLog = <<>>, !.completions = 0,
                        !.finishMsg = "none",
                        !.rewound = FALSE, !.resumed = FALSE]
    IN  IF bad      \* open() raises: the caller's except branch takes over
        THEN _close_job_file(s1)
        ELSE _push_job_line(
                 put_progress(
                     put_job_state(([_close_job_file(s1) EXCEPT !.fh = TRUE, !.fpos = 0]), "running"),
                     0, s1.job_total))

\* finish_job as it would be if a failed job also stopped the main loop.
finish_job_StopsLoop(s, msg) ==
    LET s1 == [s EXCEPT !.job_active = FALSE, !.job_paused = FALSE,
                        !.job_total = 0, !.job_sent = 0, !.job_ok = 0,
                        !.inflight = 0, !.pending = <<>>,
                        !.finishMsg = msg,
                        !.running = (msg = "Job complete"),
                        !.completions = IF msg = "Job complete"
                                        THEN @ + 1 ELSE @]
    IN  _push_job_line(put_job_state(_close_job_file(s1), "idle"))

finish_job(s, msg) ==
    LET s1 == [s EXCEPT !.job_active = FALSE, !.job_paused = FALSE,
                        !.job_total = 0, !.job_sent = 0, !.job_ok = 0,
                        !.inflight = 0, !.pending = <<>>,
                        !.finishMsg = msg,
                        !.completions = IF msg = "Job complete"
                                        THEN @ + 1 ELSE @]
    IN  _push_job_line(put_job_state(_close_job_file(s1), "idle"))

\* cancel_job_local as it would be without the clearing of the deque.
cancel_job_local_KeepsPending(s) ==
    LET s1 == [s EXCEPT !.job_active = FALSE, !.job_paused = FALSE,
                        !.job_total = 0, !.job_sent = 0, !.job_ok = 0,
                        !.inflight = 0]
    IN  _push_job_line(
            put_job_state(put_progress(_close_job_file(s1), 0, 0), "idle"))

cancel_job_local(s) ==
    LET s1 == [s EXCEPT !.job_active = FALSE, !.job_paused = FALSE,
                        !.job_total = 0, !.job_sent = 0, !.job_ok = 0,
                        !.inflight = 0, !.pending = <<>>]
    IN  _push_job_line(
            put_job_state(put_progress(_close_job_file(s1), 0, 0), "idle"))

\* --------------------------------------------------------- status handling
\* The status branch as it would be if it fell through to the ok branch.
_update_bf_tuning_Acks(s, line) ==
    LET s0 == IF s.pending # <<>>
              THEN [s EXCEPT !.pending = Tail(@),
                             !.inflight = Max(0, @ - Head(s.pending))]
              ELSE s
    IN  IF ~line.bf THEN s0
        ELSE LET s1 == [s0 EXCEPT !.bf_seen = TRUE,
                                  !.last_planner_free = line.pf]
             IN  IF s1.use_bf_autosize /\ line.rxf > s1.buffer_total
                 THEN [s1 EXCEPT !.buffer_total = line.rxf]
                 ELSE s1

\* The tuning as it would be if it took every reported rx_free as the total.
_update_bf_tuning_Follows(s, line) ==
    IF ~line.bf THEN s
    ELSE [s EXCEPT !.bf_seen = TRUE, !.last_planner_free = line.pf,
                   !.buffer_total = IF s.use_bf_autosize THEN line.rxf ELSE @]

_update_bf_tuning(s, line) ==
    IF ~line.bf THEN s
    ELSE LET s1 == [s EXCEPT !.bf_seen = TRUE,
                             !.last_planner_free = line.pf]
         IN  IF s1.use_bf_autosize /\ line.rxf > s1.buffer_total
             THEN [s1 EXCEPT !.buffer_total = line.rxf]
             ELSE s1

\* The throttle as it would be if it never held a line back.
_planner_can_send_Always(s) == TRUE

\* The value _planner_can_send returns, and the state it leaves.
_planner_can_send(s) ==
    IF ~s.use_planner_throttle THEN TRUE
    ELSE IF ~s.bf_seen THEN TRUE
    ELSE IF s.last_planner_free = -1 THEN TRUE     \* None
    ELSE s.last_planner_free > s.planner_free_min

_planner_can_send_effect(s) ==
    IF s.use_planner_throttle /\ ~s.bf_seen /\ ~s.bf_warned
    THEN [s EXCEPT !.bf_warned = TRUE]
    ELSE s


\* -------------------------------------------------------- incoming lines
\* _process_incoming_lines over the lines read in one call; r is
\* [s, ok_count, fatal].
\* The accounting as it would be if the popped length were not subtracted.
pop_pending_KeepsBytes(s) ==
    IF s.pending # <<>> THEN [s EXCEPT !.pending = Tail(@)] ELSE s

\* The accounting done for an ok, error or alarm line.
pop_pending(s) ==
    IF s.pending # <<>>
    THEN [s EXCEPT !.pending = Tail(@),
                   !.inflight = Max(0, @ - Head(s.pending))]
    ELSE s

RECURSIVE ProcessLines(_, _)
ProcessLines(r, lines) ==
    IF lines = <<>> THEN r
    ELSE LET line == Head(lines)
             s    == r.s
             popped == pop_pending(s)
         IN  IF line.k = "st"
             THEN ProcessLines([r EXCEPT !.s = _update_bf_tuning(s, line)],
                               Tail(lines))
             ELSE IF line.k = "ok"
             THEN ProcessLines([r EXCEPT !.s = popped, !.ok_count = @ + 1],
                               Tail(lines))
             ELSE IF line.k = "err"
             THEN ProcessLines([r EXCEPT !.s = popped, !.fatal = TRUE],
                               Tail(lines))
             ELSE ProcessLines(r, Tail(lines))

_process_incoming_lines(s, lines) ==
    ProcessLines([s |-> s, ok_count |-> 0, fatal |-> FALSE], lines)

\* One pass of the loop of _read_sync_response over the lines read in one
\* call: returns at the first ok / error / alarm, and the lines behind it in
\* the same read are gone with the local list. r is [s, st].
RECURSIVE SyncLines(_, _)
SyncLines(r, lines) ==
    IF lines = <<>> THEN r
    ELSE LET line == Head(lines)
         IN  IF line.k = "st"
             THEN SyncLines([r EXCEPT !.s = _update_bf_tuning(r.s, line)],
                            Tail(lines))
             ELSE IF line.k = "ok"  THEN [r EXCEPT !.st = "ok"]
             ELSE IF line.k = "err" THEN [r EXCEPT !.st = "fatal"]
             ELSE SyncLines(r, Tail(lines))

\* _read_available fails with serial.SerialException.
read_failed(s) ==
    put_error([io_fault(s) EXCEPT !.running = FALSE], "Serial read failed")


\* ------------------------------------------------------------ engine steps
Mark(s, op, a, b) == [s EXCEPT !.lastStep = <<op, a, b>>]
Goto(s, pc) == [s EXCEPT !.pc = pc, !.waitCtx = "none", !.macroRest = <<>>]
Await(s, ctx, rest) == [s EXCEPT !.pc = "wait", !.waitCtx = ctx, !.macroRest = rest]
\* An exception leaves run(): the thread ends where it stands.
Crash(s) == [io_fault(s) EXCEPT !.pc = "crashed"]

StoppedMsg(st) ==
    CASE st = "fatal"   -> "Job stopped: error"
      [] st = "timeout" -> "Job stopped: timeout"
      [] OTHER          -> "Job stopped: stopped"

\* A job line has been written: sent count, job_line event, history.
JobLineSent(s, idx) ==
    _push_job_line([s EXCEPT !.job_sent = @ + 1, !.sentLog = Append(@, idx)])

\* _stream_step_sync as it would be if it returned right after the write.
_stream_step_sync_NoWait(s, fail) ==
    IF s.fpos >= Len(JobFile)
    THEN Mark(Goto(finish_job(s, "Job complete"), "drain"), "sync", "eof", "-")
    ELSE LET ln == JobFile[s.fpos + 1]
             s1 == [s EXCEPT !.fpos = @ + 1]
         IN  IF ln = 0
             THEN Mark(Goto(s1, "drain"), "sync", "blank", "-")
             ELSE IF fail
             THEN Mark(Crash(s1), "sync", "write_failed", "-")
             ELSE Mark(Goto(JobLineSent(send_line(s1, ln, "sync"), s.fpos + 1),
                            "drain"), "sync", "sent", "-")

\* _stream_step_sync up to the point where it waits for the response.
_stream_step_sync(s, fail) ==
    IF s.fpos >= Len(JobFile)
    THEN Mark(Goto(finish_job(s, "Job complete"), "drain"), "sync", "eof", "-")
    ELSE LET ln == JobFile[s.fpos + 1]
             s1 == [s EXCEPT !.fpos = @ + 1]
         IN  IF ln = 0
             THEN Mark(Goto(s1, "drain"), "sync", "blank", "-")
             ELSE IF fail
             THEN Mark(Crash(s1), "sync", "write_failed", "-")
             ELSE Mark(Await(JobLineSent(send_line(s1, ln, "sync"), s.fpos + 1),
                             "job", <<>>), "sync", "sent", "-")

\* The rest of _stream_step_sync as it would be without job_ok += 1.
SyncStepResume_NoCount(s, st) ==
    IF st = "ok"
    THEN LET s2 == _push_job_line(put_progress(s, s.job_ok, s.job_total))
         IN  IF s2.job_total > 0 /\ s2.job_ok >= s2.job_total
             THEN finish_job(s2, "Job complete")
             ELSE s2
    ELSE finish_job(s, StoppedMsg(st))

\* The rest of _stream_step_sync, once _read_sync_response returned st.
SyncStepResume(s, st) ==
    IF st = "ok"
    THEN LET s1 == [s EXCEPT !.job_ok = @ + 1]
             s2 == _push_job_line(put_progress(s1, s1.job_ok, s1.job_total))
         IN  IF s2.job_total > 0 /\ s2.job_ok >= s2.job_total
             THEN finish_job(s2, "Job complete")
             ELSE s2
    ELSE finish_job(s, StoppedMsg(st))

\* The window check as it would be without the length of the next line.
window_full_NoLength(s, ln) == s.inflight > s.buffer_total

\* The window check of _stream_step_buffered.
window_full(s, ln) == s.inflight + ln > s.buffer_total

\* An oversize line is written whatever is in flight.
must_drain_first_Never(s) == FALSE

\* The test of the oversize branch: bytes are in flight or lengths pending.
must_drain_first(s) == s.inflight > 0 \/ s.pending # <<>>

\* The break without the seek: the line just read is lost.
rewind_Skips(s0, s1) == [s1 EXCEPT !.rewound = TRUE]

\* self._job_fh.seek(pos): back to s0, the state before the line was read.
rewind(s0, s1) == [s0 EXCEPT !.rewound = TRUE]

\* The loop of _stream_step_buffered. failAt = k > 0 makes the k-th serial
\* write of this call raise; nw counts the writes done so far. The result is
\* [s, out]: out = "break" (the step is over), "wait" (an oversize line was
\* written and its response is awaited) or "crash".
RECURSIVE BufLoop(_, _, _)
BufLoop(s, failAt, nw) ==
    IF ~(s.running /\ s.job_active /\ ~s.job_paused)
    THEN [s |-> s, out |-> "break"]
    ELSE
    LET s0 == _planner_can_send_effect(s) IN
    IF ~_planner_can_send(s) THEN [s |-> s0, out |-> "break"]
    ELSE IF s0.inflight >= s0.buffer_total - 2 THEN [s |-> s0, out |-> "break"]
    ELSE IF s0.fpos >= Len(JobFile)
    THEN IF s0.inflight = 0 /\ s0.pending = <<>>
         THEN [s |-> finish_job(s0, "Job complete"), out |-> "break"]
         ELSE [s |-> s0, out |-> "break"]
    ELSE
    LET ln == JobFile[s0.fpos + 1]
        s1 == [s0 EXCEPT !.fpos = @ + 1]
    IN  IF ln = 0
        THEN CHOOSE r \in { BufLoop(x, failAt, nw) : x \in {s1} } : TRUE
        ELSE IF ln > s1.buffer_total
        THEN IF must_drain_first(s1)
             THEN [s |-> rewind(s0, s1), out |-> "break"]
             ELSE IF failAt = nw + 1
             THEN [s |-> io_fault(s1), out |-> "crash"]
             ELSE [s |-> JobLineSent(send_line(s1, ln, "sync"), s0.fpos + 1),
                   out |-> "wait"]
        ELSE IF window_full(s1, ln)
        THEN [s |-> rewind(s0, s1), out |-> "break"]
        ELSE IF failAt = nw + 1
        THEN [s |-> finish_job(io_fault(s1), "Serial write failed"),
              out |-> "break"]
        ELSE CHOOSE r \in
               { BufLoop(x, failAt, nw + 1) :
                   x \in { JobLineSent([send_line(s1, ln, "win") EXCEPT
                                           !.inflight = @ + ln,
                                           !.pending = Append(@, ln)],
                                       s0.fpos + 1) } } : TRUE

_stream_step_buffered(s, failAt) ==
    LET r == BufLoop(s, failAt, 0)
    IN  IF r.out = "wait"
        THEN Mark(Await(r.s, "oversize", <<>>), "buffered", "oversize_sent", "-")
        ELSE IF r.out = "crash"
        THEN Mark([r.s EXCEPT !.pc = "crashed"], "buffered", "write_failed", "-")
        ELSE Mark(Goto(r.s, "drain"), "buffered",
                  IF r.s.faults > s.faults THEN "write_failed" ELSE "break",
                  IF Len(r.s.sentLog) > Len(s.sentLog) THEN "sent" ELSE "-")

\* The rest of the oversize branch, once _read_sync_response returned st.
OversizeResume(s, st) ==
    IF st = "ok"
    THEN LET s1 == [s EXCEPT !.job_ok = @ + 1]
         IN  _push_job_line(put_progress(s1, s1.job_ok, s1.job_total))
    ELSE finish_job(s, StoppedMsg(st))


\* run_lines_blocking from the given line on: write it and wait.
MacroSend(s, lines, fail) ==
    IF lines = <<>> THEN Goto(s, "stream")
    ELSE IF fail THEN Crash(s)
    ELSE Await(send_line(s, Head(lines), "cmd"), "macro", Tail(lines))

\* Command dispatch of run(): the branch taken for message c. failAt = k > 0
\* makes the k-th serial write of the branch raise.
DispatchBranch(s, c, failAt, keep) ==
    LET k == c.kind IN
    CASE k = "shutdown" ->
            Goto([s EXCEPT !.running = FALSE], "stream")
      [] k = "realtime" ->
            IF failAt = 1 THEN Crash(s)
            ELSE Goto(send_realtime(s, "RT_HOLD", 0), "stream")
      [] k = "line" ->
            IF failAt = 1 THEN Crash(s)
            ELSE Await(send_line(s, c.len, "cmd"), "line", <<>>)
      [] k = "start_job_file" ->
            LET s1 == start_job_from_file(s, JobTotal, c.mode, c.bad)
            IN  IF c.bad
                THEN Goto(cancel_job_local(put_error(s1, "Failed to start job")),
                          "stream")
                ELSE Goto(s1, "stream")
      [] k = "pause_local" ->
            Goto(put_job_state([s EXCEPT !.job_paused = TRUE,
                                         !.pause_mode = "paused"], "paused"),
                 "stream")
      [] k = "hold_local" ->
            Goto(put_job_state([s EXCEPT !.job_paused = TRUE,
                                         !.pause_mode = "hold"], "hold"),
                 "stream")
      [] k = "resume_local" ->
            Goto(put_job_state([s EXCEPT !.job_paused = FALSE,
                                         !.resumed = s.job_active /\ s.job_paused],
                               "running"),
                 "stream")
      [] k = "soft_reset" ->
            IF failAt = 1 THEN Crash(s)
            ELSE Goto(cancel_job_local(send_realtime(s, "CTRL_X", keep)), "stream")
      [] k = "cancel_job" ->
            LET s1 == IF failAt = 1 THEN io_fault(s)
                      ELSE send_realtime(s, "CTRL_X", keep)
            IN  IF s1.cancel_unlock
                THEN IF failAt = 2
                     THEN Goto(cancel_job_local(io_fault(s1)), "stream")
                     ELSE Await(send_line(s1, CmdLen, "cmd"), "unlock", <<>>)
                ELSE Goto(cancel_job_local(s1), "stream")
      [] k = "run_lines_blocking" ->
            MacroSend(s, (<<CmdLen, CmdLen>>), failAt = 1)
      [] OTHER -> Goto(s, "stream")          \* queue.Empty: msg = None

Dispatch(s, c, failAt, keep) ==
    LET s1 == DispatchBranch(s, c, failAt, keep)
    IN  Mark(s1, "cmd", c.kind,
             IF s1.pc = "crashed" THEN "crashed"
             ELSE IF s1.pc = "wait" THEN "waiting" ELSE "done")

\* What the caller of _read_sync_response does with its result st.
ResumeBranch(s, st, fail) ==
    LET ctx == s.waitCtx IN
    CASE ctx = "job"      -> Goto(SyncStepResume(s, st), "drain")
      [] ctx = "oversize" -> Goto(OversizeResume(s, st), "drain")
      [] ctx = "line" ->
            Goto(IF st # "ok" THEN put_error(s, "Command failed") ELSE s,
                 "stream")
      [] ctx = "unlock"   -> Goto(cancel_job_local(s), "stream")
      [] ctx = "macro" ->
            IF st # "ok" THEN Goto(put_error(s, "Macro stopped"), "stream")
            ELSE MacroSend(s, s.macroRest, fail)
      [] OTHER -> s

Resume(s, st, fail) == Mark(ResumeBranch(s, st, fail), "wait", s.waitCtx, st)

\* The stream step of run() under its guard, when command dispatch is over
\* (s.pc = "stream"); otherwise the worker is waiting or gone.
StreamStep(s, sFail) ==
    IF s.pc # "stream" THEN s
    ELSE IF s.job_active /\ ~s.job_paused /\ s.fh
    THEN LET f == IF s.faults < MaxFaults THEN sFail ELSE 0
         IN  IF s.stream_mode = "buffered"
             THEN _stream_step_buffered(s, f)
             ELSE _stream_step_sync(s, f = 1)
    ELSE Goto(s, "drain")

\* The tail of the iteration as it would be if the accounting were skipped
\* while the job is paused.
DrainStep_SkipsWhenPaused(s, lines, fail) ==
    LET s1 == IF fail = "poll" THEN io_fault(s)
              ELSE send_realtime(s, "RT_STATUS", 0)
        s2 == IF fail = "read" THEN read_failed(s1) ELSE s1
        r  == _process_incoming_lines(s2, lines)
        s3 == r.s
        buffered == s3.job_active /\ s3.stream_mode = "buffered"
                    /\ ~s3.job_paused
        s4 == IF buffered /\ r.fatal
              THEN finish_job(IF fail = "hold" THEN io_fault(s3)
                              ELSE send_realtime(s3, "RT_HOLD", 0),
                              StoppedMsg("fatal"))
              ELSE IF buffered /\ r.ok_count > 0
              THEN LET s5 == [s3 EXCEPT !.job_ok = @ + r.ok_count]
                   IN  _push_job_line(put_progress(s5, s5.job_ok, s5.job_total))
              ELSE s3
    IN  Mark(Goto(s4, "loop"), "drain",
             IF r.fatal THEN "fatal" ELSE IF r.ok_count > 0 THEN "ok" ELSE "-",
             IF buffered THEN "job" ELSE "-")

\* The tail of one iteration of run(): status poll, drain, accounting.
\* lines is what _pop_lines_from_rx returns; fail names the serial call that
\* raises, if any. The status request is due at the first iteration and,
\* later, whenever 250 ms have passed: writing it again changes nothing in
\* the model once status reports are arriving.
DrainStep(s, lines, fail) ==
    LET s1 == IF fail = "poll" THEN io_fault(s)
              ELSE send_realtime(s, "RT_STATUS", 0)
        s2 == IF fail = "read" THEN read_failed(s1) ELSE s1
        r  == _process_incoming_lines(s2, lines)
        s3 == r.s
        buffered == s3.job_active /\ s3.stream_mode = "buffered"
        s4 == IF buffered /\ r.fatal
              THEN finish_job(IF fail = "hold" THEN io_fault(s3)
                              ELSE send_realtime(s3, "RT_HOLD", 0),
                              StoppedMsg("fatal"))
              ELSE IF buffered /\ r.ok_count > 0
              THEN LET s5 == [s3 EXCEPT !.job_ok = @ + r.ok_count]
                   IN  _push_job_line(put_progress(s5, s5.job_ok, s5.job_total))
              ELSE s3
    IN  Mark(Goto(s4, "loop"), "drain",
             IF r.fatal THEN "fatal" ELSE IF r.ok_count > 0 THEN "ok" ELSE "-",
             IF buffered THEN "job" ELSE "-")

\* The teardown after the main loop: close() and the final events.
Teardown(s) ==
    LET s1 == [_close_job_file(s) EXCEPT !.ser = FALSE]
    IN  Mark(Goto(_push_job_line(put_job_state(s1, "disconnected")), "done"),
             "teardown", "-", "-")


\* run() as it would be without the return of the except branch.
OpenStep_FallsThrough(s, fail) ==
    IF fail \in {"port", "wake"}
    THEN Mark(Goto(put_job_state(
                       put_error([s EXCEPT !.faults = @ + 1,
                                           !.ser = (fail = "wake")],
                                 "Failed to open serial"),
                       "disconnected"), "loop"),
              "open", "failed", "-")
    ELSE LET s1 == put_job_state([s EXCEPT !.ser = TRUE], "idle")
             s2 == IF fail = "handshake"
                   THEN put_error([s1 EXCEPT !.faults = @ + 1],
                                  "Handshake write failed")
                   ELSE s1
         IN  Mark(Goto(s2, "loop"), "open", "ok", "-")

\* open() and _handshake(). fail = "port": serial.Serial raises; "wake": the
\* write of the wake sequence raises (the port stays open); "handshake": the
\* write of $I raises and is reported. The answer to $I arrives while the
\* handshake is collecting.
OpenStep(s, fail) ==
    IF fail \in {"port", "wake"}
    THEN Mark(Goto(put_job_state(
                       put_error([s EXCEPT !.faults = @ + 1,
                                           !.ser = (fail = "wake")],
                                 "Failed to open serial"),
                       "disconnected"), "done"),
              "open", "failed", "-")
    ELSE LET s1 == put_job_state([s EXCEPT !.ser = TRUE], "idle")
             s2 == IF fail = "handshake"
                   THEN put_error([s1 EXCEPT !.faults = @ + 1],
                                  "Handshake write failed")
                   ELSE s1
         IN  Mark(Goto(s2, "loop"), "open", "ok", "-")

\* ------------------------------------------------------------------- Init
\* Neither the parser nor the sanitizer has been called.
NotCalled == [fn |-> "-"]

\* GrblWorker(...) as App.connect constructs it; conn counts the connections.
NewWorker(c, conn) ==
         [ conn |-> conn, pc |-> "init", waitCtx |-> "none", macroRest |-> <<>>,
               running |-> TRUE, ser |-> FALSE,
               job_active |-> FALSE, job_paused |-> FALSE,
               pause_mode |-> "paused", stream_mode |-> "sync",
               job_total |-> 0, job_sent |-> 0, job_ok |-> 0,
               inflight |-> 0, pending |-> <<>>,
               buffer_total |-> Max(BufMin, Min(RxBufferCfg, BufMax)),
               bf_seen |-> FALSE, bf_warned |-> FALSE,
               last_planner_free |-> -1,
               fh |-> FALSE, fpos |-> 0,
               use_bf_autosize |-> c.use_bf_autosize,
               use_planner_throttle |-> c.use_planner_throttle,
               planner_free_min |-> clamp(PlannerFreeMinCfg, 1, 4),
               cancel_unlock |-> c.cancel_unlock,
               ctrlq |-> <<>>, statusReq |-> FALSE, lastRt |-> "-",
               lastJobState |-> "-", lastError |-> "-",
               lastProgress |-> <<0, 0>>, lastJobLine |-> <<0, 0, 0>>,
               finishMsg |-> "none", completions |-> 0,
               sentLog |-> <<>>, rewound |-> FALSE, resumed |-> FALSE,
               faults |-> 0, ioFailed |-> FALSE,
               lastStep |-> <<"-", "-", "-">> ]

InitE(scenarios) ==
    /\ \E c \in Configs : w = NewWorker(c, 1)
    /\ tx_queue = <<>>
    /\ cmdsLeft \in scenarios
    /\ disconnecting = FALSE
    /\ text = <<>> /\ result = NotCalled

Init == InitE(Scenarios)

Alive == w.pc \notin {"done", "crashed"}
CanFail == w.faults < MaxFaults

\* --------------------------------------------------------- the controller
\* The lines one serial read can return. The controller answers the lines it
\* holds oldest first, each with ok or error:N; Len(ks) of these answers
\* have arrived, and, once a '?' has been written, possibly a status report
\* st. The report is put first: behind an answer it would either be handled
\* the same way (the drain handles every line, and status handling and
\* answer handling touch different fields) or be dropped with the rest of
\* the read (the synchronous wait returns at the first answer).
Answers(q, ks) ==
    [i \in DOMAIN ks |-> [k |-> ks[i], len |-> q[i].len, src |-> q[i].src,
                          bf |-> FALSE, pf |-> 0, rxf |-> 0]]

Batch(q, ks, st) ==
    IF st.k = "none" THEN Answers(q, ks) ELSE <<st>> \o Answers(q, ks)

\* The engine has read the answers to the n oldest lines.
TakeAnswers(s, n) == [s EXCEPT !.ctrlq = SubSeq(@, n + 1, Len(@))]

StatusChoices == {([k |-> "none", len |-> 0, src |-> "-", bf |-> FALSE, pf |-> 0, rxf |-> 0])} \cup (IF w.statusReq THEN StatusReports ELSE {})

\* ------------------------------------------------------ the worker thread
\* The actions take the environment as parameters: faulty says whether a
\* serial call may raise in this step, kinds are the answers the controller
\* gives, atLeast is the least number of answers a read returns.
OpenE(faulty) ==
    /\ w.pc = "init"
    /\ \E fail \in {"-"} \cup (IF faulty THEN {"port", "wake", "handshake"} ELSE {}) :
         w' = OpenStep(w, fail)
    /\ UNCHANGED << tx_queue, cmdsLeft, disconnecting, text, result >>

Open == OpenE(CanFail)

\* while self.running: enter the iteration, or leave the loop and tear down.
LoopHead ==
    /\ w.pc = "loop"
    /\ w' = IF w.running THEN Goto(w, "get") ELSE Teardown(w)
    /\ UNCHANGED << tx_queue, cmdsLeft, disconnecting, text, result >>

\* tx_queue.get returns (a command, or queue.Empty after the timeout); the
\* command is dispatched and the stream step follows.
IterateE(faulty) ==
    /\ w.pc = "get"
    /\ \E failAt \in IF faulty /\ tx_queue # <<>> THEN 0..2 ELSE {0},
          sFail \in IF ~faulty THEN {0}
                    ELSE IF tx_queue # <<>>
                            /\ Head(tx_queue).kind = "start_job_file"
                    THEN 0..Len(JobFile)
                    ELSE IF w.job_active THEN 0..(Len(JobFile) - w.fpos)
                    ELSE {0},
          keep \in IF tx_queue # <<>>
                      /\ Head(tx_queue).kind \in {"soft_reset", "cancel_job"}
                   THEN 0..Len(w.ctrlq) ELSE {0} :
         /\ failAt = 0 \/ sFail = 0
         /\ w' = IF tx_queue = <<>>
                 THEN StreamStep(Goto(w, "stream"), sFail)
                 ELSE StreamStep(Dispatch(w, Head(tx_queue), failAt, keep), sFail)
    /\ tx_queue' = IF tx_queue = <<>> THEN tx_queue ELSE Tail(tx_queue)
    /\ UNCHANGED << cmdsLeft, disconnecting, text, result >>

Iterate == IterateE(CanFail)

\* Status poll, drain of the serial input and acknowledgment accounting.
DrainE(kinds, faulty) ==
    /\ w.pc = "drain"
    /\ \/ \E n \in 0..Min(Len(w.ctrlq), MaxRx) :
          \E ks \in [1..n -> kinds], st \in StatusChoices :
          \E fail \in {"-"} \cup (IF faulty THEN {"poll"} ELSE {})
                       \cup (IF faulty /\ w.job_active
                                /\ w.stream_mode = "buffered"
                                /\ \E i \in 1..n : ks[i] = "err"
                             THEN {"hold"} ELSE {}) :
            w' = DrainStep(TakeAnswers(w, n), Batch(w.ctrlq, ks, st), fail)
       \/ faulty /\ w' = DrainStep(w, <<>>, "read")
    /\ UNCHANGED << tx_queue, cmdsLeft, disconnecting, text, result >>

Drain == DrainE({"ok", "err"}, CanFail)

\* _read_sync_response: one pass over the lines that have arrived.
WaitReadE(kinds, atLeast, faulty) ==
    /\ w.pc = "wait" /\ w.running
    /\ \E n \in atLeast..Min(Len(w.ctrlq), MaxRx) :
       \E ks \in [1..n -> kinds], st \in StatusChoices :
         LET lines == Batch(w.ctrlq, ks, st)
             r == SyncLines([s |-> TakeAnswers(w, n), st |-> "none"], lines)
         IN  /\ lines # <<>>
             /\ IF r.st = "none" THEN w' = r.s
                ELSE \E sFail \in IF faulty
                                   THEN 0..Max(1, Len(JobFile) - w.fpos)
                                   ELSE {0} :
                       w' = StreamStep(Resume(r.s, r.st, sFail = 1), sFail)
    /\ UNCHANGED << tx_queue, cmdsLeft, disconnecting, text, result >>

WaitRead == WaitReadE({"ok", "err"}, 0, CanFail)

\* _read_sync_response: the read raises serial.SerialException.
WaitReadFail ==
    /\ w.pc = "wait" /\ w.running /\ CanFail
    /\ w' = Mark(read_failed(w), "wait", w.waitCtx, "read_failed")
    /\ UNCHANGED << tx_queue, cmdsLeft, disconnecting, text, result >>

\* _read_sync_response as it would be without the deadline.
WaitTimeout_NoDeadline ==
    /\ w.pc = "wait" /\ FALSE
    /\ UNCHANGED << w, tx_queue, cmdsLeft, disconnecting, text, result >>

\* _read_sync_response: the deadline has passed. The test follows the pass
\* over the lines read and comes before the next test of self.running, so a
\* wait whose flag was cleared during the pass can still end by timeout.
WaitTimeout ==
    /\ w.pc = "wait"
    /\ \E sFail \in IF CanFail THEN 0..Len(JobFile) ELSE {0} :
         w' = StreamStep(Resume(w, "timeout", FALSE), sFail)
    /\ UNCHANGED << tx_queue, cmdsLeft, disconnecting, text, result >>

\* _read_sync_response: self.running is false.
WaitStopped ==
    /\ w.pc = "wait" /\ ~w.running
    /\ \E sFail \in IF CanFail THEN 0..Len(JobFile) ELSE {0} :
         w' = StreamStep(Resume(w, "stopped", FALSE), sFail)
    /\ UNCHANGED << tx_queue, cmdsLeft, disconnecting, text, result >>

\* ------------------------------------------------- the operator interface
\* Any of the App methods that put a command on tx_queue. The worker looks
\* at the queue only in tx_queue.get, so a put is represented at the moment
\* the worker is blocked there; a realtime command is also put while the
\* worker is inside a synchronous wait.
Submit ==
    /\ Len(tx_queue) < MaxQueue
    /\ \E c \in cmdsLeft :
         /\ c.kind # "shutdown"
         /\ w.pc = "get" \/ (w.pc = "wait" /\ c.kind = "realtime")
         /\ tx_queue' = Append(tx_queue, c)
         /\ cmdsLeft' = cmdsLeft \ {c}
    /\ UNCHANGED << w, disconnecting, text, result >>

\* App.disconnect / App.on_close: clear worker.running, then put shutdown.
Disconnect ==
    /\ Alive /\ ~disconnecting /\ Len(tx_queue) < MaxQueue
    /\ Cmd("shutdown") \in cmdsLeft
    /\ w' = [w EXCEPT !.running = FALSE]
    /\ tx_queue' = Append(tx_queue, Cmd("shutdown"))
    /\ disconnecting' = TRUE
    /\ UNCHANGED << text, result >>
    /\ cmdsLeft' = cmdsLeft \ {Cmd("shutdown")}

\* _poll_disconnect_complete once the thread has ended (self.worker = None),
\* then App.connect: a new GrblWorker on the same tx_queue, same settings.
\* The budget of injected failures is one for the whole behaviour.
Reconnect ==
    /\ disconnecting /\ ~Alive
    /\ w' = [NewWorker(w, w.conn + 1) EXCEPT !.faults = w.faults]
    /\ disconnecting' = FALSE
    /\ UNCHANGED << tx_queue, cmdsLeft, text, result >>

Next ==
    \/ Open
    \/ LoopHead
    \/ Iterate
    \/ Drain
    \/ WaitRead
    \/ WaitReadFail
    \/ WaitTimeout
    \/ WaitStopped
    \/ Submit
    \/ Disconnect
    \/ Reconnect

Spec == Init /\ [][Next]_vars

\* One sync job over a healthy link: no serial call raises, the controller
\* answers every line with ok, and the answer is read before the deadline.
\* The worker thread keeps running and every awaited answer arrives.
InitSyncOk == InitE({{Start("sync")}})

DrainOk == DrainE({"ok"}, FALSE)
IterateOk == IterateE(FALSE)
OpenOk == OpenE(FALSE)
WaitReadOk == WaitReadE({"ok"}, 0, FALSE)
WaitAnswerOk == WaitReadE({"ok"}, 1, FALSE)

NextSyncOk ==
    \/ OpenOk
    \/ LoopHead
    \/ IterateOk
    \/ DrainOk
    \/ WaitReadOk
    \/ Submit

SpecSyncOk ==
    /\ InitSyncOk /\ [][NextSyncOk]_vars
    /\ WF_vars(OpenOk) /\ WF_vars(LoopHead) /\ WF_vars(IterateOk)
    /\ WF_vars(DrainOk) /\ WF_vars(WaitAnswerOk)


\* ==================================================================
\* Properties
\* ==================================================================
RECURSIVE SumLens(_)
SumLens(q) == IF q = <<>> THEN 0 ELSE Head(q).len + SumLens(Tail(q))

\* The payload lengths of the windowed job lines among q, oldest first.
RECURSIVE WinLens(_)
WinLens(q) ==
    IF q = <<>> THEN <<>>
    ELSE IF Head(q).src = "win" THEN <<Head(q).len>> \o WinLens(Tail(q))
    ELSE WinLens(Tail(q))

\* The indices of the non-blank lines of the job file, in source order.
RECURSIVE NonBlankFrom(_)
NonBlankFrom(i) ==
    IF i > Len(JobFile) THEN <<>>
    ELSE IF JobFile[i] # 0 THEN <<i>> \o NonBlankFrom(i + 1)
    ELSE NonBlankFrom(i + 1)

NonBlank == NonBlankFrom(1)

IsPrefix(a, b) == Len(a) <= Len(b) /\ a = SubSeq(b, 1, Len(a))

BufferedJob == w.job_active /\ w.stream_mode = "buffered"
SyncJob == w.job_active /\ w.stream_mode = "sync"

\* C1: in every reachable state in_flight_bytes equals the sum of the
\* entries of the pending-length queue.
C1_InflightIsSumOfPending == w.inflight = SumSeq(w.pending)

\* A buffered job has sent two lines and one acknowledgment has been taken
\* off the queue.
C1_Witness ==
    /\ BufferedJob /\ w.job_sent = 2 /\ w.job_ok = 1
    /\ Len(w.pending) = 1 /\ w.inflight > 0

\* C2: in every reachable state in_flight_bytes does not exceed
\* buffer_total_bytes.
C2_InflightWithinBuffer == w.inflight <= w.buffer_total

\* The window is full to the last byte while the job is running.
C2_Witness == BufferedJob /\ w.inflight = w.buffer_total /\ Len(w.pending) = 2

\* The lines among q that fit the receive buffer on their own.
RECURSIVE Fitting(_, _)
Fitting(q, total) ==
    IF q = <<>> THEN <<>>
    ELSE IF Head(q).len <= total THEN <<Head(q)>> \o Fitting(Tail(q), total)
    ELSE Fitting(Tail(q), total)

\* C3: the bytes of all lines written to the controller and not yet answered
\* never exceed buffer_total_bytes. A line longer than the whole buffer, which
\* the engine sends on its own, is left out of the count: the claim is
\* checked on the lines that fit.
C3_NeverOverrunsReceiveBuffer ==
    SumLens(Fitting(w.ctrlq, w.buffer_total)) <= w.buffer_total

CancelProcessed ==
    \/ w.lastStep \in { <<"cmd", "soft_reset", "done">>,
                        <<"cmd", "cancel_job", "done">> }
    \/ w.lastStep[1] = "wait" /\ w.lastStep[2] = "unlock"
                               /\ w.lastStep[3] \in {"ok", "fatal", "timeout", "stopped"}

\* C4: once the handler of cancel_job or soft_reset has run to its end, the
\* job is inactive and unpaused, the counters and the flow-control window are
\* empty, and the last job_state published is idle.
C4_CancelClearsJob ==
    CancelProcessed =>
        /\ ~w.job_active /\ ~w.job_paused
        /\ w.job_sent = 0 /\ w.job_ok = 0
        /\ w.inflight = 0 /\ w.pending = <<>>
        /\ w.lastJobState = "idle"

\* A buffered job was cancelled after it had written two lines, while
\* responses were still under way.
C4_Witness ==
    /\ CancelProcessed /\ w.stream_mode = "buffered"
    /\ Len(w.sentLog) = 2 /\ w.ctrlq # <<>>

JobCompleted ==
    /\ ~w.job_active /\ w.finishMsg = "Job complete" /\ w.completions = 1
    /\ w.lastProgress = <<JobTotal, JobTotal>> /\ w.lastJobState = "idle"

\* C5: a sync job of N lines, all answered ok, publishes progress 1/N, 2/N,
\* ... N/N in steps of one, ends with 'Job complete', and that event is
\* published once.
C5_SyncJobCompletesOnce ==
    /\ [](w.completions <= 1)
    /\ [][ w.lastProgress' # w.lastProgress =>
             /\ w.lastProgress'[2] = JobTotal
             /\ w.lastProgress'[1] =
                    IF w.job_active THEN w.lastProgress[1] + 1 ELSE 0 ]_vars
    /\ (SyncJob ~> JobCompleted)
    /\ [][JobCompleted => JobCompleted']_vars

\* The sync job has completed with every line acknowledged.
C5_Witness == JobCompleted /\ w.stream_mode = "sync" /\ w.sentLog = NonBlank

\* C6: while a sync job is active, at most one of its lines is unacknowledged,
\* and only while the engine is blocked waiting for that line's response.
C6_SyncOneInFlight ==
    SyncJob =>
        /\ w.job_sent - w.job_ok \in {0, 1}
        /\ (w.job_sent - w.job_ok = 1) <=> (w.pc = "wait" /\ w.waitCtx = "job")

\* The second line of a sync job is awaiting its response.
C6_Witness == SyncJob /\ w.job_sent = 2 /\ w.job_ok = 1

\* C7: the lines written for one job are the first non-blank lines of the
\* source, in source order, without gap or repetition, and all of them once
\* the job is complete.
C7_LinesInSourceOrder ==
    /\ IsPrefix(w.sentLog, NonBlank)
    /\ w.finishMsg = "Job complete" => w.sentLog = NonBlank

\* A buffered job has written every line after rewinding its source and after
\* a pause/resume cycle.
C7_Witness ==
    /\ w.stream_mode = "buffered" /\ w.sentLog = NonBlank
    /\ w.rewound /\ w.resumed /\ w.finishMsg = "Job complete"

\* C8: during a buffered job the pending-length queue is the sequence of the
\* lengths of the windowed lines whose response has not been received (the
\* moment between the reset byte of a cancel and the clearing of the job is
\* left out).
C8_PendingMatchesWire ==
    (BufferedJob /\ w.waitCtx # "unlock") => w.pending = WinLens(w.ctrlq)

JobFailed ==
    \/ w.lastStep[1] = "wait" /\ w.lastStep[2] \in {"job", "oversize"}
                               /\ w.lastStep[3] \in {"timeout", "fatal"}
    \/ w.lastStep = <<"drain", "fatal", "job">>

\* C9: a sync-wait timeout or an error/alarm token ends the job or the
\* command only: the job is inactive, the worker stays in its loop with the
\* serial handle open, nothing says disconnected, and self.running is still
\* set unless a disconnect or a serial read failure cleared it.
C9_JobFailureKeepsConnection ==
    /\ JobFailed => ~w.job_active
    /\ (JobFailed \/ (/\ w.lastStep[1] = "wait" /\ w.lastStep[2] \in {"line", "macro"}
                      /\ w.lastStep[3] \in {"timeout", "fatal"})) =>
          /\ w.pc \in {"loop", "get", "drain"}
          /\ w.ser
          /\ w.lastJobState # "disconnected"
          /\ (~disconnecting /\ ~w.ioFailed) => w.running

\* A sync job has just been ended by a timeout.
C9_Witness ==
    /\ w.lastStep = <<"wait", "job", "timeout">>
    /\ w.finishMsg = "Job stopped: timeout" /\ w.running /\ w.ser

\* C10: a serial read or write failure in the main loop stops the engine and
\* is reported, and the worker ends with the handle closed and disconnected
\* published.
C10_IoFailureIsFatal ==
    w.ioFailed =>
        /\ ~w.running
        /\ w.lastError # "-"
        /\ (w.pc \in {"done", "crashed"}) =>
               (~w.ser /\ w.lastJobState = "disconnected")

OpenFailed == w.lastStep[1] = "open" /\ w.lastStep[2] = "failed"

\* C11: when open() raises, the worker reports the error and disconnected
\* and ends at once: it never takes a command, never writes a line or a
\* realtime byte, and nothing happens afterwards on
\* this connection.
C11_OpenFailureEndsWorker ==
    /\ [](OpenFailed =>
            /\ w.pc = "done"
            /\ w.lastError = "Failed to open serial"
            /\ w.lastJobState = "disconnected"
            /\ w.ctrlq = <<>> /\ w.sentLog = <<>>
            /\ ~w.statusReq /\ w.lastRt = "-"
            /\ ~w.job_active)
    /\ [][OpenFailed => ((w' = w \/ w'.conn # w.conn) /\ tx_queue' = tx_queue)]_vars

\* serial.Serial raised while the operator still had commands to give.
C11_Witness == OpenFailed /\ ~w.ser /\ cmdsLeft # {} /\ w.pc = "done"

\* C12: once the worker has disconnected (teardown after a shutdown or a
\* read failure), no job is left: inactive, counters zero, nothing in
\* flight, and the last job_line event carries zero counts.
C12_DisconnectTearsDownJob ==
    (w.pc = "done" /\ w.lastStep[1] = "teardown") =>
        /\ ~w.job_active
        /\ w.job_sent = 0 /\ w.job_ok = 0
        /\ w.inflight = 0 /\ w.pending = <<>>
        /\ w.lastJobLine[1] = 0 /\ w.lastJobLine[2] = 0

\* C13: a connection made after a disconnect is not shut down by what the
\* previous connection left behind: its worker keeps running unless a read
\* failure stops it (the operator asks for one disconnect only).
C13_ReconnectStartsFresh == w.conn > 1 => (w.running \/ w.ioFailed)

Accounting(s) == <<s.job_ok, s.job_sent, s.inflight, s.pending>>

NextAnswers ==
    UNION { { Answers(w.ctrlq, ks) : ks \in [1..n -> {"ok", "err"}] } :
            n \in 0..Min(Len(w.ctrlq), MaxRx) }

\* C14: a status report is not an acknowledgment. Wherever the worker is
\* about to drain or is in a synchronous wait, for every status report put
\* at any place among the answers that can arrive next: the drain leaves
\* the counters and the flow-control state as
\* the same answers without the report leave them and counts the same oks
\* and errors; the synchronous wait returns the same result; and a report
\* alone changes none of them and does not end the wait.
C14_StatusIsNotAnAck ==
    w.pc \in {"drain", "wait"} =>
    \A st \in StatusReports, lines \in NextAnswers :
      \A i \in 0..Len(lines) :
        LET with    == (SubSeq(lines, 1, i) \o <<st>> \o SubSeq(lines, i + 1, Len(lines)))
            d0      == _process_incoming_lines(w, lines)
            d1      == _process_incoming_lines(w, with)
            y0      == SyncLines([s |-> w, st |-> "none"], lines)
            y1      == SyncLines([s |-> w, st |-> "none"], with)
        IN  /\ w.pc = "drain" =>
                  /\ Accounting(d1.s) = Accounting(d0.s)
                  /\ d1.ok_count = d0.ok_count /\ d1.fatal = d0.fatal
                  /\ lines = <<>> =>
                        (Accounting(d1.s) = Accounting(w) /\ d1.ok_count = 0
                         /\ ~d1.fatal)
            /\ w.pc = "wait" =>
                  /\ Accounting(y1.s) = Accounting(w)
                  /\ y1.st = y0.st
                  /\ lines = <<>> => y1.st = "none"

\* A status report has been handled while windowed lines were unanswered, and
\* two more answers are due.
C14_Witness ==
    /\ BufferedJob /\ w.bf_seen /\ Len(w.pending) = 2 /\ Len(w.ctrlq) = 2
    /\ w.statusReq

\* C15: a start_job_file message taken from the queue while a job is active
\* does not replace that job: the lines written so far stay written (the
\* step may go on with the next line of the same job), the counters and the
\* source position do not go back, the stream mode and the pending entries
\* stay.
C15_StartOnlyWhenNoJob ==
    [][ (/\ w.pc = "get" /\ w' # w
         /\ tx_queue # <<>> /\ Head(tx_queue).kind = "start_job_file"
         /\ w.job_active) =>
          /\ IsPrefix(w.sentLog, w'.sentLog)
          /\ w'.job_sent >= w.job_sent /\ w'.job_ok >= w.job_ok
          /\ w'.fpos >= w.fpos
          /\ w'.stream_mode = w.stream_mode
          /\ IsPrefix(w.pending, w'.pending) ]_vars

\* C16: a realtime command is written at once: whatever the worker does
\* next while the command is the oldest in the queue, it takes the command
\* and writes its byte (or the write raises), and the step leaves the
\* counters and the flow-control state alone apart from what the stream step
\* of the same iteration adds after the byte.
C16_RealtimeBypassesQueuing ==
    [][ ((tx_queue # <<>> /\ Head(tx_queue).kind = "realtime") /\ w' # w) =>
          /\ tx_queue' = Tail(tx_queue)
          /\ w'.lastRt = "RT_HOLD" \/ w'.pc = "crashed"
          /\ w'.job_ok = w.job_ok
          /\ IsPrefix(w.pending, w'.pending)
          /\ IsPrefix(w.sentLog, w'.sentLog) ]_vars

\* C17: taking pause_local or hold_local writes nothing to the controller;
\* as long as the job stays paused no job line is written; and a drain of a
\* paused buffered job that reads n acknowledgments adds n to job_ok and
\* removes the n oldest entries of the pending queue.
C17_PauseStopsSendingNotAcks ==
    /\ [][ (/\ w.pc = "get" /\ w' # w
            /\ tx_queue # <<>> /\ Head(tx_queue).kind \in {"pause_local", "hold_local"}) =>
             /\ w'.job_paused
             /\ w'.ctrlq = w.ctrlq /\ w'.sentLog = w.sentLog
             /\ w'.lastRt = w.lastRt /\ w'.statusReq = w.statusReq
             /\ w'.faults = w.faults ]_vars
    /\ [][ (w.job_active /\ w.job_paused /\ w'.job_active /\ w'.job_paused)
             => w'.sentLog = w.sentLog ]_vars
    /\ [][ (/\ w.pc = "drain" /\ w'.pc = "loop"
            /\ BufferedJob /\ w.job_paused /\ w'.job_active) =>
             LET n == Len(w.ctrlq) - Len(w'.ctrlq)
             IN  /\ w'.job_ok = w.job_ok + n
                 /\ w'.pending = (SubSeq((w.pending), Min(n, Len((w.pending))) + 1, Len((w.pending))))
                 /\ w'.sentLog = w.sentLog ]_vars

\* The last step was a drain that counted an ok for a paused buffered job
\* which still has a line unanswered.
C17_Witness ==
    /\ BufferedJob /\ w.job_paused /\ w.lastStep = <<"drain", "ok", "job">>
    /\ w.job_ok = 1 /\ Len(w.pending) = 1 /\ Len(w.sentLog) = 2

(***************************************************************************)
(* The status parser. A line of text is a sequence of one-character        *)
(* strings. A value that Python returns as None is [some |-> FALSE].       *)
(***************************************************************************)
None == [some |-> FALSE, v |-> <<>>]
NoNumber == [some |-> FALSE, v |-> 0]
Some(v) == [some |-> TRUE, v |-> v]

\* Index of the first occurrence of needle in s, 0 if there is none.
Find(s, needle) ==
    LET hits == { i \in 1..(Len(s) - Len(needle) + 1) :
                    SubSeq(s, i, i + Len(needle) - 1) = needle }
    IN  IF hits = {} THEN 0 ELSE CHOOSE i \in hits : \A j \in hits : i <= j

\* s.split(sep, 1)[0] and s.split(sep, 1)[1] (the latter when sep is in s).
SplitHead(s, sep) ==
    LET i == Find(s, sep) IN IF i = 0 THEN s ELSE SubSeq(s, 1, i - 1)

SplitTail(s, sep) ==
    LET i == Find(s, sep) IN SubSeq(s, i + Len(sep), Len(s))

\* s.split(sep)
RECURSIVE SplitAll(_, _)
SplitAll(s, sep) ==
    LET i == Find(s, sep)
    IN  IF i = 0 THEN <<s>>
        ELSE <<SubSeq(s, 1, i - 1)>> \o SplitAll(SubSeq(s, i + Len(sep), Len(s)), sep)

\* str.strip() for the whitespace characters the inputs use.
White == {" ", "\t"}

RECURSIVE LStrip(_)
LStrip(s) == IF s # <<>> /\ Head(s) \in White THEN LStrip(Tail(s)) ELSE s

RECURSIVE RStrip(_)
RStrip(s) ==
    IF s # <<>> /\ s[Len(s)] \in White THEN RStrip(SubSeq(s, 1, Len(s) - 1)) ELSE s

strip(s) == RStrip(LStrip(s))

\* int() and float() on text without exponent, underscore, inf or nan:
\* an optional sign, then digits, for float with an optional point. The value
\* of a float is kept in thousandths.
DigitChars == <<"0", "1", "2", "3", "4", "5", "6", "7", "8", "9">>
AllDigits(ds) == \A i \in DOMAIN ds : (\E n \in DOMAIN DigitChars : DigitChars[n] = (ds[i]))

RECURSIVE NatVal(_)
NatVal(ds) ==
    IF ds = <<>> THEN 0
    ELSE NatVal(SubSeq(ds, 1, Len(ds) - 1)) * 10 + ((CHOOSE n \in DOMAIN DigitChars : DigitChars[n] = (ds[Len(ds)])) - 1)

Unsigned(tok) == IF tok # <<>> /\ Head(tok) \in {"-", "+"} THEN Tail(tok) ELSE tok
SignOf(tok) == IF tok # <<>> /\ Head(tok) = "-" THEN -1 ELSE 1

int(tok) ==
    LET d == Unsigned(strip(tok))
    IN  IF d # <<>> /\ AllDigits(d) THEN Some(SignOf(strip(tok)) * NatVal(d))
        ELSE NoNumber                                   \* ValueError

float(tok) ==
    LET u  == Unsigned(strip(tok))
        i  == Find(u, <<".">>)
        ip == IF i = 0 THEN u ELSE SubSeq(u, 1, i - 1)
        fp == IF i = 0 THEN <<>> ELSE SubSeq(u, i + 1, Len(u))
        th == SubSeq(fp \o <<"0", "0", "0">>, 1, 3)
    IN  IF AllDigits(ip) /\ AllDigits(fp) /\ (ip # <<>> \/ fp # <<>>)
        THEN Some(SignOf(strip(tok)) * (NatVal(ip) * 1000 + NatVal(th)))
        ELSE NoNumber                                   \* ValueError

parse_state_from_status(status_line) ==
    IF ~(Len(status_line) >= Len((<<"<">>)) /\ SubSeq(status_line, 1, Len((<<"<">>))) = (<<"<">>)) \/ Find(status_line, <<"|">>) = 0
    THEN None
    ELSE Some(SplitHead(Tail(status_line), <<"|">>))

parse_field(status_line, key) ==
    LET needle == <<"|">> \o key
    IN  IF Find(status_line, needle) = 0 THEN None
        ELSE Some(SplitHead(SplitTail(status_line, needle), <<"|">>))

parse_vec3(csv3) ==
    IF ~csv3.some \/ csv3.v = <<>> THEN None
    ELSE LET parts == SplitAll(csv3.v, <<",">>)
         IN  IF Len(parts) < 3 THEN None
             ELSE LET x == float(parts[1])
                      y == float(parts[2])
                      z == float(parts[3])
                  IN  IF x.some /\ y.some /\ z.some
                      THEN Some(<<x.v, y.v, z.v>>)
                      ELSE None                         \* except Exception

parse_feed_from_status(status_line) ==
    LET fs == parse_field(status_line, <<"F", "S", ":">>)
    IN  IF ~fs.some \/ fs.v = <<>> THEN None
        ELSE Some(SplitHead(fs.v, <<",">>))

parse_bf_from_status(status_line) ==
    LET bf == parse_field(status_line, <<"B", "f", ":">>)
    IN  IF ~bf.some \/ bf.v = <<>> THEN None
        ELSE IF Find(bf.v, <<",">>) = 0 THEN None  \* a, b = ...: ValueError
        ELSE LET a == int(SplitHead(bf.v, <<",">>))
                 b == int(SplitTail(bf.v, <<",">>))
             IN  IF a.some /\ b.some THEN Some(<<a.v, b.v>>) ELSE None

CharsOf(s) == { s[i] : i \in DOMAIN s }

parse_pins_from_status(status_line) ==
    LET pn == parse_field(status_line, <<"P", "n", ":">>)
    IN  IF ~pn.some \/ pn.v = <<>> THEN {} ELSE CharsOf(strip(pn.v))

parse_accessories_from_status(status_line) ==
    LET a == parse_field(status_line, <<"A", ":">>)
    IN  IF ~a.some \/ a.v = <<>> THEN {} ELSE CharsOf(strip(a.v))

\* Everything the accessors return for one line.
ParseStatus(status_line) ==
    [ state |-> parse_state_from_status(status_line),
      mpos  |-> parse_vec3(parse_field(status_line, <<"M", "P", "o", "s", ":">>)),
      wco   |-> parse_vec3(parse_field(status_line, <<"W", "C", "O", ":">>)),
      bf    |-> parse_bf_from_status(status_line),
      feed  |-> parse_feed_from_status(status_line),
      pins  |-> parse_pins_from_status(status_line),
      acc   |-> parse_accessories_from_status(status_line) ]

\* ------------------------------------------------ status lines to parse
\* A piece of text together with the value it denotes.
Num(t, v) == [t |-> t, v |-> v]

MachineStates == { <<"I", "d", "l", "e">>, <<"R", "u", "n">> }

RECURSIVE Concat(_)
Concat(parts) == IF parts = <<>> THEN <<>> ELSE Head(parts) \o Concat(Tail(parts))

Rot(seq, k) == SubSeq(seq, k + 1, Len(seq)) \o SubSeq(seq, 1, k)

Field(key, val) == <<"|">> \o key \o val

StatusLine(state, fields) == <<"<">> \o state \o Concat(fields) \o <<">">>

FeedField == Field(<<"F", "S", ":">>, <<"5", "0", "0", ",", "0">>)

WellFormedInputs ==
    { [ fn |-> "status", malformed |-> FALSE, kind |-> "status",
        line |-> StatusLine(s, Rot((<< Field(<<"M", "P", "o", "s", ":">>,
                                             a.t \o <<",", "0", ".", "2", "5", ",", "-", "2", ".", "5">>),
                                       Field(<<"W", "C", "O", ":">>, <<"1", ",", "1", ",", "1">>),
                                       Field(<<"B", "f", ":">>, p.t \o <<",">> \o r.t),
                                       FeedField,
                                       Field(<<"P", "n", ":">>, <<"X", "Y">>),
                                       Field(<<"A", ":">>, <<"S", "F">>) >>), k)),
        want |-> [ state |-> Some(s),
                   mpos  |-> Some(<<a.v, 250, -2500>>),
                   wco   |-> Some(<<1000, 1000, 1000>>),
                   bf    |-> Some(<<p.v, r.v>>),
                   feed  |-> Some(<<"5", "0", "0">>),
                   pins  |-> {"X", "Y"},
                   acc   |-> {"S", "F"} ] ] :
      s \in MachineStates, a \in ({ Num(<<"1">>, 1000), Num(<<"-", "2", ".", "5">>, -2500),
                                    Num(<<"0", ".", "2", "5">>, 250) }), p \in ({ Num(<<"1", "5">>, 15), Num(<<"0">>, 0) }), r \in ({ Num(<<"1", "2", "8">>, 128), Num(<<"4", "8">>, 48) }),
      k \in 0..5 }

OptField(key, x) == IF x.t.some THEN Field(key, x.t.v) ELSE <<>>

VariantFields(m, b, pn, feedLast) ==
    LET fs == << OptField(<<"M", "P", "o", "s", ":">>, m),
                 OptField(<<"B", "f", ":">>, b),
                 OptField(<<"P", "n", ":">>, pn) >>
    IN  IF feedLast THEN fs \o <<FeedField>> ELSE <<FeedField>> \o fs

\* kind "status": a status line; "nolt": the same without the leading '<';
\* "nobar": no field separator at all.
MalformedInputs ==
    { [ fn |-> "status", malformed |-> TRUE, kind |-> kind,
        line |-> CASE kind = "status" ->
                        StatusLine(s, VariantFields(m, b, pn, feedLast))
                   [] kind = "nolt" ->
                        Tail(StatusLine(s, VariantFields(m, b, pn, feedLast)))
                   [] OTHER -> StatusLine(s, <<>>),
        want |-> IF kind = "nobar"
                 THEN [ state |-> None, mpos |-> None, wco |-> None,
                        bf |-> None, feed |-> None, pins |-> {}, acc |-> {} ]
                 ELSE [ state |-> IF kind = "status" THEN Some(s) ELSE None,
                        mpos  |-> m.v,
                        wco   |-> None,
                        bf    |-> b.v,
                        feed  |-> Some(<<"5", "0", "0">>),
                        pins  |-> pn.v,
                        acc   |-> {} ] ] :
      s \in MachineStates, kind \in {"status", "nolt", "nobar"},
      m \in ({ Num(Some(<<"1", ",", "0", ".", "2", "5", ",", "-", "2", ".", "5">>),
                   Some(<<1000, 250, -2500>>)),
               Num(None, None),
               Num(Some(<<"1", ",", "0", ".", "2", "5">>), None),
               Num(Some(<<"1", ",", "x", ",", "-", "2", ".", "5">>), None),
               Num(Some(<<>>), None) }), b \in ({ Num(Some(<<"1", "5", ",", "1", "2", "8">>), Some(<<15, 128>>)),
                                                  Num(None, None),
                                                  Num(Some(<<"1", "5">>), None),
                                                  Num(Some(<<"1", "5", ",", "r">>), None),
                                                  Num(Some(<<"1", "5", ",", "1", "2", "8", ",", "3">>), None) }), pn \in ({ Num(Some(<<"X", "Y">>), {"X", "Y"}),
                                                                                                                            Num(None, {}),
                                                                                                                            Num(Some(<<>>), {}) }),
      feedLast \in BOOLEAN }

\* The parser applied to one line.
InitParse ==
    /\ w = NewWorker(CHOOSE c \in Configs : c.use_bf_autosize, 1)
    /\ tx_queue = <<>> /\ cmdsLeft = {} /\ disconnecting = FALSE
    /\ text \in WellFormedInputs \cup MalformedInputs
    /\ result = NotCalled

Parse ==
    /\ text.fn = "status" /\ result.fn = "-"
    /\ result' = [fn |-> "status", out |-> ParseStatus(text.line)]
    /\ UNCHANGED << w, tx_queue, cmdsLeft, disconnecting, text >>

SpecParse == InitParse /\ [][Parse]_vars

\* C18: for a well-formed status line, with any of its fields in the last
\* place, the accessors return the state, the machine position, the work
\* offset, planner_free and rx_free, the feed, the pins and the accessories
\* the line states, and no '>' in any of them.
C18_ParserRecoversFields ==
    (result.fn = "status" /\ ~text.malformed) => result.out = text.want

\* C19: for a line with missing or malformed fields the accessors return
\* absent (the empty set for Pn and A) for those fields and the value for
\* the others; a line without leading '<' or without '|' has no state.
C19_ParserIsTotal ==
    (result.fn = "status" /\ text.malformed) =>
        /\ result.out.state = text.want.state
        /\ text.kind # "nolt" => result.out = text.want

\* ------------------------------------------------------ clean_gcode_line
MaxLineLen == 4

Lowers == <<"a", "b", "c", "d", "e", "f", "g", "h", "i", "j", "k", "l", "m", "n", "o", "p", "q", "r", "s", "t", "u", "v", "w", "x", "y", "z">>
\* str.upper, one character
UpperChar(c) ==
    IF \E i \in DOMAIN Lowers : Lowers[i] = c
    THEN (<<"A", "B", "C", "D", "E", "F", "G", "H", "I", "J", "K", "L", "M", "N", "O", "P", "Q", "R", "S", "T", "U", "V", "W", "X", "Y", "Z">>)[CHOOSE i \in DOMAIN Lowers : Lowers[i] = c]
    ELSE c

upper(s) == [i \in DOMAIN s |-> UpperChar(s[i])]

\* "".join(s.split())
RemoveWhite(s) == SelectSeq(s, LAMBDA c : c \notin White)

\* A stray ")" is dropped and the depth goes below zero.
ParenStep_NoClamp(st, ch) ==
    IF ch = "(" THEN [st EXCEPT !.in_paren = @ + 1]
    ELSE IF ch = ")" THEN [st EXCEPT !.in_paren = @ - 1]
    ELSE IF st.in_paren = 0 THEN [st EXCEPT !.out = Append(@, ch)]
    ELSE st

\* One round of the loop over the characters: st = [out, in_paren].
ParenStep(st, ch) ==
    IF ch = "(" THEN [st EXCEPT !.in_paren = @ + 1]
    ELSE IF ch = ")" THEN [st EXCEPT !.in_paren = IF @ - 1 > 0 THEN @ - 1 ELSE 0]
    ELSE IF st.in_paren = 0 THEN [st EXCEPT !.out = Append(@, ch)]
    ELSE st

RECURSIVE ParenLoop(_, _)
ParenLoop(st, s) ==
    IF s = <<>> THEN st ELSE ParenLoop(ParenStep(st, Head(s)), Tail(s))

clean_gcode_line(line) ==
    LET s0 == strip(line)
        s1 == strip(ParenLoop([out |-> <<>>, in_paren |-> 0], s0).out)
        s2 == IF Find(s1, <<";">>) # 0 THEN strip(SplitHead(s1, <<";">>)) ELSE s1
    IN  IF s0 = <<>> THEN <<>>
        ELSE IF s2 = <<>> THEN <<>>
        ELSE upper(RemoveWhite(s2))

MoveLine == <<"G", "1", " ", "X", "1", "0", " ", "Y", "2", "0", " ", "(", "m", "o", "v", "e", ")", " ", ";", " ", "g", "o">>
BlankLine == <<" ", " ", " ">>
CommentLine == <<"(", "o", "n", "l", "y", " ", "a", " ", "c", "o", "m", "m", "e", "n", "t", ")">>

InitClean ==
    /\ w = NewWorker(CHOOSE c \in Configs : c.use_bf_autosize, 1)
    /\ tx_queue = <<>> /\ cmdsLeft = {} /\ disconnecting = FALSE
    /\ text \in ({ [fn |-> "clean", line |-> l] :
                   l \in UNION { [1..n -> ({"g", "G", "1", " ", "(", ")", ";"})] : n \in 0..MaxLineLen }
                         \cup {MoveLine, BlankLine, CommentLine} })
    /\ result = NotCalled

Clean ==
    /\ text.fn = "clean" /\ result.fn = "-"
    /\ result' = [fn |-> "clean", out |-> clean_gcode_line(text.line)]
    /\ UNCHANGED << w, tx_queue, cmdsLeft, disconnecting, text >>

SpecClean == InitClean /\ [][Clean]_vars

\* The reference: the depth of parentheses after each character, never
\* below zero; a character is kept when it is no parenthesis and the depth
\* is zero; the kept text is cut at the first semicolon, white space is
\* removed and letters are upper-cased.
RECURSIVE DepthAfter(_, _)
DepthAfter(s, i) ==
    IF i = 0 THEN 0
    ELSE LET d == DepthAfter(s, i - 1)
         IN  CASE s[i] = "(" -> d + 1
               [] s[i] = ")" -> IF d = 0 THEN 0 ELSE d - 1
               [] OTHER -> d

RECURSIVE OutsideParens(_, _)
OutsideParens(s, i) ==
    IF i = 0 THEN <<>>
    ELSE OutsideParens(s, i - 1) \o
         (IF s[i] \notin {"(", ")"} /\ DepthAfter(s, i) = 0 THEN <<s[i]>> ELSE <<>>)

BeforeSemicolon(s) ==
    IF \E i \in DOMAIN s : s[i] = ";"
    THEN SubSeq(s, 1, (CHOOSE i \in DOMAIN s :
                          s[i] = ";" /\ \A j \in 1..(i - 1) : s[j] # ";") - 1)
    ELSE s

Reference(line) ==
    LET kept == SelectSeq(BeforeSemicolon(OutsideParens(line, Len(line))),
                          LAMBDA c : c \notin White)
    IN  [i \in DOMAIN kept |-> UpperChar(kept[i])]

Cleaned == result.fn = "clean"

\* C20: the sanitizer returns what the reference returns for every line;
\* "G1 X10 Y20 (move) ; go" becomes "G1X10Y20", "   " and "(only a comment)"
\* become the empty text; the result holds no white space, parenthesis,
\* semicolon or lower-case letter.
C20_SanitizerMatchesReference ==
    Cleaned =>
        /\ result.out = Reference(text.line)
        /\ \A i \in DOMAIN result.out :
              /\ result.out[i] \notin White \cup {"(", ")", ";"}
              /\ \A k \in DOMAIN Lowers : result.out[i] # Lowers[k]
        /\ text.line = MoveLine => result.out = <<"G", "1", "X", "1", "0", "Y", "2", "0">>
        /\ text.line \in {BlankLine, CommentLine} => result.out = <<>>

\* A stray ")" , white space, a lower-case letter and a ";" comment in one line.
C20_Witness ==
    /\ Cleaned /\ text.line = <<")", " ", "g", ";">> /\ result.out = <<"G">>

\* ------------------------------------------------------ override stepping
OverReach == 3      \* how far outside the legal range a requested target goes
Span == 12          \* how far from the tracked percentage a nearby target is
MaxDetour == 3      \* length of the alternative step sequences compared

FeedMin == 10
SpindleMin == 50
OverrideMax == 200
OverrideStart == 100
FarTarget == 500

abs(x) == IF x < 0 THEN -x ELSE x

\* A difference of exactly ten is left to the second loop.
MoreTens_Strict(diff) == abs(diff) > 10

\* "while abs(diff) >= 10"
MoreTens(diff) == abs(diff) >= 10

\* The first loop: st = [diff, current, sent], sent being the bytes handed
\* to send_realtime so far.
RECURSIVE TensLoop(_, _, _)
TensLoop(st, plus10, minus10) ==
    IF MoreTens(st.diff)
    THEN LET step10 == IF st.diff > 0 THEN 10 ELSE -10
         IN  TensLoop([ diff    |-> st.diff - step10,
                        current |-> st.current + step10,
                        sent    |-> Append(st.sent,
                                      IF st.diff > 0 THEN plus10 ELSE minus10) ],
                      plus10, minus10)
    ELSE st

\* "while diff != 0"
RECURSIVE OnesLoop(_, _, _)
OnesLoop(st, plus1, minus1) ==
    IF st.diff # 0
    THEN LET step1 == IF st.diff > 0 THEN 1 ELSE -1
         IN  OnesLoop([ diff    |-> st.diff - step1,
                        current |-> st.current + step1,
                        sent    |-> Append(st.sent,
                                      IF st.diff > 0 THEN plus1 ELSE minus1) ],
                      plus1, minus1)
    ELSE st

_send_override_steps(target, current, min_val, max_val, plus10, minus10, plus1, minus1) ==
    LET tgt  == clamp(target, min_val, max_val)
        diff == tgt - current
        st   == [diff |-> diff, current |-> current, sent |-> <<>>]
    IN  IF diff = 0 THEN st
        ELSE OnesLoop(TensLoop(st, plus10, minus10), plus1, minus1)

\* The targets requested from the percentage c of an override whose legal
\* range is lo..OverrideMax: those near c, those around either end of the
\* range, and the named ones.
Targets(c, lo) ==
    ((c - Span)..(c + Span)) \cup ((lo - OverReach)..(lo + OverReach))
    \cup ((OverrideMax - OverReach)..(OverrideMax + OverReach)) \cup ({104, 150, FarTarget})

InitOverride ==
    /\ w = NewWorker(CHOOSE c \in Configs : c.use_bf_autosize, 1)
    /\ tx_queue = <<>> /\ cmdsLeft = {} /\ disconnecting = FALSE
    /\ text \in (UNION { { [fn |-> "override", kind |-> "feed", current |-> c,
                            target |-> t, worker |-> x] :
                           t \in Targets(c, FeedMin), x \in BOOLEAN } :
                         c \in FeedMin..OverrideMax }
                 \cup
                 UNION { { [fn |-> "override", kind |-> "spindle", current |-> c,
                            target |-> t, worker |-> x] :
                           t \in Targets(c, SpindleMin), x \in BOOLEAN } :
                         c \in SpindleMin..OverrideMax })
    /\ result = NotCalled

CommitOverride(kind, min_val, plus10, minus10, plus1, minus1) ==
    /\ text.fn = "override" /\ text.kind = kind /\ result.fn = "-"
    /\ LET r == _send_override_steps(text.target, text.current, min_val,
                                     OverrideMax, plus10, minus10, plus1, minus1)
       IN  /\ result' = [fn |-> "override", current |-> r.current]
           /\ tx_queue' = (IF (text.worker) THEN tx_queue \o [i \in DOMAIN (r.sent) |-> <<"realtime", (r.sent)[i]>>] ELSE tx_queue)
    /\ UNCHANGED << w, cmdsLeft, disconnecting, text >>

_commit_feed_override ==
    CommitOverride("feed", FeedMin, "RT_FEED_PLUS_10", "RT_FEED_MINUS_10",
                   "RT_FEED_PLUS_1", "RT_FEED_MINUS_1")

_commit_spindle_override ==
    CommitOverride("spindle", SpindleMin, "RT_SPINDLE_PLUS_10",
                   "RT_SPINDLE_MINUS_10", "RT_SPINDLE_PLUS_1",
                   "RT_SPINDLE_MINUS_1")

NextOverride == _commit_feed_override \/ _commit_spindle_override

SpecOverride == InitOverride /\ [][NextOverride]_vars

Committed == result.fn = "override"

\* The legal range of the override committed, and the target within it.
LegalMin == IF text.kind = "feed" THEN FeedMin ELSE SpindleMin
LegalTarget ==
    IF text.target < LegalMin THEN LegalMin
    ELSE IF text.target > OverrideMax THEN OverrideMax ELSE text.target

\* The byte that steps the override committed by n points (n = 10 or 1) in
\* the direction of d.
StepByte(n, d) ==
    CASE text.kind = "feed" /\ n = 10 ->
            IF d > 0 THEN "RT_FEED_PLUS_10" ELSE "RT_FEED_MINUS_10"
      [] text.kind = "feed" /\ n = 1 ->
            IF d > 0 THEN "RT_FEED_PLUS_1" ELSE "RT_FEED_MINUS_1"
      [] text.kind = "spindle" /\ n = 10 ->
            IF d > 0 THEN "RT_SPINDLE_PLUS_10" ELSE "RT_SPINDLE_MINUS_10"
      [] OTHER ->
            IF d > 0 THEN "RT_SPINDLE_PLUS_1" ELSE "RT_SPINDLE_MINUS_1"

\* C21: a commit from c towards t puts floor(|d|/10) ten-point steps and then
\* |d| mod 10 one-point steps on the command channel, d = clamp(t) - c, all
\* of the override's own kind and in the direction of d, and tracks clamp(t)
\* (with no worker nothing is put). 100 to 150 is five ten-point steps, 100
\* to 104 four one-point steps, and a request of 500 is one of 200.
C21_OverrideStepsTensThenOnes ==
    Committed =>
        LET d   == LegalTarget - text.current
            n10 == abs(d) \div 10
            n1  == abs(d) % 10
        IN  /\ result.current = LegalTarget
            /\ text.worker =>
                  tx_queue = [i \in 1..(n10 + n1) |->
                                <<"realtime",
                                  StepByte(IF i <= n10 THEN 10 ELSE 1, d)>>]
            /\ ~text.worker => tx_queue = <<>>
            /\ (text.worker /\ text.kind = "feed" /\ text.current = OverrideStart) =>
                  /\ text.target = 150 =>
                        tx_queue = [i \in 1..5 |-> <<"realtime", "RT_FEED_PLUS_10">>]
                  /\ text.target = 104 =>
                        tx_queue = [i \in 1..4 |-> <<"realtime", "RT_FEED_PLUS_1">>]
                  /\ text.target = FarTarget =>
                        /\ result.current = OverrideMax
                        /\ tx_queue = [i \in 1..10 |-> <<"realtime", "RT_FEED_PLUS_10">>]

\* The feed override taken down from 100 to 88: one ten-point step, then
\* two one-point steps.
C21_Witness ==
    /\ Committed /\ text.worker /\ text.kind = "feed"
    /\ text.current = OverrideStart /\ text.target = 88
    /\ Len(tx_queue) = 3 /\ result.current = 88
    /\ tx_queue[1] = <<"realtime", "RT_FEED_MINUS_10">>
    /\ tx_queue[2] = <<"realtime", "RT_FEED_MINUS_1">>

\* The percentage after the first n steps of a sequence of step bytes, each
\* given by its signed size.
RECURSIVE After(_, _, _)
After(c, steps, n) == IF n = 0 THEN c ELSE After(c, steps, n - 1) + steps[n]

Detours == UNION { [1..n -> {10, -10, 1, -1}] : n \in 0..MaxDetour }

\* C22: no sequence of +10, -10, +1 and -1 steps that takes the current
\* percentage to the clamped target is shorter than the sequence put on the
\* command channel.
C22_OverrideStepsAreFewest ==
    (Committed /\ text.worker) =>
        \A steps \in Detours : (/\ After(text.current, steps, Len(steps)) = LegalTarget
                                /\ \A n \in 1..Len(steps) :
                                      After(text.current, steps, n) \in LegalMin..OverrideMax) => Len(steps) >= Len(tx_queue)

\* C23: the operator interface reaches the engine only through the command
\* channel: a step of the interface (a command put, a disconnect or window
\* close) leaves every variable of the worker as it was.
C23_ChannelsOnly == [][(Submit \/ Disconnect) => w' = w]_vars

\* An operator who sends a console line, runs a macro and disconnects, in
\* any order, with no job.
InitMacro == InitE({ { Line, Cmd("run_lines_blocking"), Cmd("shutdown") } })

SpecMacro == InitMacro /\ [][Next]_vars

\* run_lines_blocking is inside its loop, waiting for the answer to the line
\* it wrote last.
InMacro == w.pc = "wait" /\ w.waitCtx = "macro"

\* C24: a macro line is written only when the controller has answered the
\* line before it, so that it is the only unanswered line, and the lines go
\* out in list order; at the first outcome that is not ok one "Macro
\* stopped" error is published and no further line is written.
C24_MacroOneLineAtATime ==
    /\ [][(InMacro /\ InMacro' /\ Len(w'.macroRest) < Len(w.macroRest)) =>
            /\ w'.macroRest = Tail(w.macroRest)
            /\ w'.ctrlq = << [len |-> Head(w.macroRest), src |-> "cmd"] >>]_vars
    /\ [][(/\ InMacro
           /\ w'.lastStep[1] = "wait" /\ w'.lastStep[2] = "macro"
           /\ w'.lastStep[3] \in {"fatal", "timeout", "stopped"}) =>
            /\ w'.lastError = "Macro stopped"
            /\ ~InMacro' /\ w'.macroRest = <<>>
            /\ Len(w'.ctrlq) <= Len(w.ctrlq)]_vars

\* C25: after a windowed send the bytes in flight leave the 2-byte safety
\* margin free: in_flight_bytes <= buffer_total_bytes - 2.
C25_WindowKeepsMargin == (/\ w.job_active /\ w.stream_mode = "buffered"
                          /\ w.lastStep[1] = "buffered" /\ w.lastStep[3] = "sent") => w.inflight <= w.buffer_total - 2

InOversizeWait == w.pc = "wait" /\ w.waitCtx = "oversize"

\* C26: a line longer than buffer_total_bytes is written only with nothing
\* in flight and no pending length; it is the one line written in that
\* step, the worker waits for its answer as in the synchronous protocol, the
\* line is not added to the pending lengths, and no line is written while
\* the worker waits.
C26_OversizeLineGoesAlone ==
    /\ [][(w'.waitCtx = "oversize" /\ w.waitCtx # "oversize") =>
            LET idx == w'.sentLog[Len(w'.sentLog)]
            IN  /\ w.inflight = 0 /\ w.pending = <<>>
                /\ w'.inflight = 0 /\ w'.pending = <<>>
                /\ w'.sentLog = Append(w.sentLog, idx)
                /\ JobFile[idx] > w'.buffer_total /\ w'.fpos = idx
                /\ w'.job_sent = w.job_sent + 1
                /\ w'.pc = "wait"
                /\ w'.ctrlq # <<>>
                /\ w'.ctrlq[Len(w'.ctrlq)] = [len |-> JobFile[idx], src |-> "sync"]]_vars
    /\ [](InOversizeWait => w.inflight = 0 /\ w.pending = <<>>)
    /\ [][InOversizeWait /\ InOversizeWait' => w'.sentLog = w.sentLog]_vars

\* The oversize line has been written after a rewind: it was met while two
\* windowed lines were unanswered and retried once they were.
C26_Witness ==
    /\ InOversizeWait /\ w.rewound /\ w.job_active
    /\ w.sentLog = <<1, 2, 4>> /\ w.job_ok = 2

\* C27: a buffered job does not outlast the drain pass that brought its
\* acknowledged count up to total_lines, paused or not: a job still active
\* after such a pass is short of acknowledgments.
C27_DrainCompletesJob == (/\ BufferedJob /\ w.lastStep = <<"drain", "ok", "job">>
                          /\ w.job_sent = w.job_total /\ w.sentLog = NonBlank) => w.job_ok < w.job_total

\* C28: a buffered job is reported complete only at the end of its source,
\* with nothing in flight and no pending length, and when the controller has
\* answered every job line written.
C28_CompleteOnlyWhenAnswered ==
    [][(/\ w.job_active /\ w.stream_mode = "buffered"
        /\ ~w'.job_active /\ w'.finishMsg = "Job complete"
        /\ w'.lastStep[1] = "buffered") =>
          /\ w.fpos = Len(JobFile)
          /\ w.inflight = 0 /\ w.pending = <<>>
          /\ ~(\E i \in DOMAIN w'.ctrlq : w'.ctrlq[i].src \in {"win", "sync"})]_vars

\* One buffered job over a healthy link: no serial call raises and every
\* answer is ok. The operator either pauses and resumes the job or sends one
\* console line while it runs.
InitBufOk ==
    InitE({ { Start("buffered"), Cmd("pause_local"), Cmd("resume_local") },
            { Start("buffered"), Line } })

\* A drain pass that reads at least one of the answers the controller owes,
\* and after which the planner throttle lets the next line go.
DrainAnswerOk ==
    /\ DrainOk
    /\ w.ctrlq # <<>> => Len(w'.ctrlq) < Len(w.ctrlq)
    /\ _planner_can_send(w')

\* The worker thread keeps running; again and again the controller's answers
\* arrive and its status report shows a free planner; an awaited answer
\* arrives before the deadline.
SpecBufOk ==
    /\ InitBufOk /\ [][NextSyncOk]_vars
    /\ WF_vars(OpenOk) /\ WF_vars(LoopHead) /\ WF_vars(IterateOk)
    /\ WF_vars(DrainOk) /\ SF_vars(DrainAnswerOk) /\ WF_vars(WaitAnswerOk)

\* C29: a buffered job that is not paused for ever is written to its last
\* line and ends with 'Job complete'.
C29_BufferedJobCompletes ==
    ([]<>(~w.job_paused)) => (BufferedJob ~> (JobCompleted /\ w.sentLog = NonBlank))

\* The job has been ended by finish_job(f"Job stopped: {fatal}").
StoppedByError == ~w.job_active /\ w.finishMsg = StoppedMsg("fatal")

\* C30: when the drain pass of an active buffered job meets an error: or
\* alarm: line, the hold byte is written and the job is ended with the
\* controller's message; the line is not counted as an acknowledgment and no
\* job line is written from then on.
C30_FatalStopsBufferedJob ==
    /\ [][(/\ w.pc = "drain" /\ w.job_active /\ w.stream_mode = "buffered"
           /\ w'.lastStep[1] = "drain" /\ w'.lastStep[2] = "fatal") =>
            /\ (w'.lastRt = "RT_HOLD" \/ w'.faults > w.faults)
            /\ StoppedByError' /\ ~w'.fh
            /\ w'.lastJobState = "idle"
            /\ w'.job_ok = 0 /\ w'.lastProgress = w.lastProgress
            /\ w'.sentLog = w.sentLog]_vars
    /\ [][StoppedByError =>
            \/ w'.sentLog = w.sentLog
            \/ w'.finishMsg # w.finishMsg]_vars

\* A buffered job with two lines written has just been stopped by an error
\* line, the hold byte written.
C30_Witness ==
    /\ w.lastStep = <<"drain", "fatal", "job">>
    /\ StoppedByError /\ w.lastRt = "RT_HOLD"
    /\ w.stream_mode = "buffered" /\ w.sentLog = <<1, 2>>

C32_BufferTotalNeverLowered ==
    /\ [](w.pc = "init" =>
            /\ w.buffer_total \in BufMin..BufMax
            /\ RxBufferCfg \in BufMin..BufMax => w.buffer_total = RxBufferCfg)
    /\ [][w'.conn = w.conn =>
            /\ w'.buffer_total >= w.buffer_total
            /\ w'.buffer_total # w.buffer_total =>
                 /\ w.use_bf_autosize
                 /\ \E st \in StatusReports : w'.buffer_total = st.rxf]_vars

\* A job has run and ended, and the connection has seen both a report that
\* raised the total and, after it, a report of less free space.
C32_Witness ==
    /\ w.use_bf_autosize /\ w.buffer_total > RxBufferCfg
    /\ w.last_planner_free = 1
    /\ ~w.job_active /\ w.sentLog # <<>>

\* ------------------------------------------------ _sync_timeout_for_line
\* The rule as it would be without the upper-casing of the line.
_sync_timeout_for_line_AsTyped(line) ==
    LET s == strip(line)
    IN  IF s = <<>> THEN "_sync_timeout_s"
        ELSE IF Len(s) >= 2 /\ SubSeq(s, 1, 2) = <<"$", "H">>
             THEN "_homing_sync_timeout_s"
        ELSE IF s[1] = "$" THEN "_system_sync_timeout_s"
        ELSE "_sync_timeout_s"

\* The field of the worker whose value is the deadline for the line.
_sync_timeout_for_line(line) ==
    LET s == upper(strip(line))
    IN  IF s = <<>> THEN "_sync_timeout_s"
        ELSE IF Len(s) >= 2 /\ SubSeq(s, 1, 2) = <<"$", "H">>
             THEN "_homing_sync_timeout_s"
        ELSE IF s[1] = "$" THEN "_system_sync_timeout_s"
        ELSE "_sync_timeout_s"

\* The places that wait for an answer: the synchronous job line, the
\* oversize line of a buffered job, the macro line, the line command and the
\* unlock after a cancel, which always sends $X.
InitTimeout ==
    /\ w = NewWorker(CHOOSE c \in Configs : c.use_bf_autosize, 1)
    /\ tx_queue = <<>> /\ cmdsLeft = {} /\ disconnecting = FALSE
    /\ text \in ({ [fn |-> "timeout", site |-> site, line |-> l] :
                   site \in {"job", "oversize", "macro", "line"},
                   l \in UNION { [1..n -> {"$", "h", "H", "x", " "}] : n \in 0..MaxLineLen } }
                 \cup { [fn |-> "timeout", site |-> "unlock", line |-> <<"$", "X">>] })
    /\ result = NotCalled

SyncTimeout ==
    /\ text.fn = "timeout" /\ result.fn = "-"
    /\ result' = [fn |-> "timeout", out |-> _sync_timeout_for_line(text.line)]
    /\ UNCHANGED << w, tx_queue, cmdsLeft, disconnecting, text >>

SpecTimeout == InitTimeout /\ [][SyncTimeout]_vars

\* C33: the deadline of a synchronous wait depends on the line alone: behind
\* its leading white space a line that starts with $H in either case gets the
\* homing timeout, another line that starts with $ the system timeout, and
\* every other line, the empty one included, the default timeout, at every
\* place that waits.
C33_TimeoutChosenFromLine ==
    result.fn = "timeout" =>
        LET l == text.line
            k == CHOOSE j \in 0..Len(l) :
                     /\ \A i \in 1..j : l[i] = " "
                     /\ j = Len(l) \/ l[j + 1] # " "
            dollar == k < Len(l) /\ l[k + 1] = "$"
        IN  result.out =
              IF dollar /\ k + 1 < Len(l) /\ l[k + 2] \in {"h", "H"}
              THEN "_homing_sync_timeout_s"
              ELSE IF dollar THEN "_system_sync_timeout_s"
              ELSE "_sync_timeout_s"

\* A macro line " $h" has been given the homing timeout.
C33_Witness ==
    /\ result.fn = "timeout" /\ text.site = "macro"
    /\ text.line = <<" ", "$", "h">>
    /\ result.out = "_homing_sync_timeout_s"

\* ---------------------------------------------------- _read_sync_response
\* Every caller of _read_sync_response: a synchronous job with a console
\* line, a buffered job with its oversize line and a cancel (with the unlock
\* when it is configured), and a macro; each may be cut short by a shutdown.
InitWait ==
    InitE({ { Start("sync"), Line, Cmd("shutdown") },
            { Start("buffered"), Cmd("cancel_job"), Cmd("shutdown") },
            { Cmd("run_lines_blocking"), Cmd("shutdown") } })

\* The clock runs: a pass of the loop whose deadline has passed returns, and
\* so does a pass that finds self.running cleared. Nothing is assumed about
\* the controller, which may send status reports for ever and never answer.
SpecWait ==
    /\ InitWait /\ [][Next]_vars
    /\ WF_vars(WaitTimeout) /\ WF_vars(WaitStopped)

\* C34: every synchronous wait ends, whatever arrives in the meantime (the
\* waits of a job or a macro follow one another in one step, and there are
\* finitely many of them, so the worker is outside a wait again and again),
\* and when it returns to a caller that leaves the result to be seen, the
\* result is ok, fatal, timeout or stopped.
C34_SyncWaitTerminates ==
    /\ []<>(w.pc # "wait")
    /\ [][(/\ w.pc = "wait"
           /\ w'.pc # "wait" \/ w'.macroRest # w.macroRest \/ w'.fpos # w.fpos
           /\ w'.lastStep[1] = "wait") =>
            /\ w'.lastStep[2] = w.waitCtx
            /\ w'.lastStep[3] \in {"ok", "fatal", "timeout", "stopped"}]_vars

\* The wait for the answer to a console line has ended at its deadline after
\* a status report was read in it.
C34_Witness ==
    /\ w.lastStep = <<"wait", "line", "timeout">>
    /\ w.bf_seen /\ w.pc = "drain"

\* C35: whenever the engine is about to take a start command off the queue,
\* handling it leaves, before the stream step, a job that is active and not
\* paused, with sent = ok = 0, an empty byte window, a stream mode of sync or
\* buffered (sync for an unknown mode) and job_state running published; when
\* the file cannot be opened, an error is published and the job is inactive
\* with job_state idle and every counter zero.
C35_StartJobOutcome ==
    (w.pc = "get" /\ tx_queue # <<>> /\ Head(tx_queue).kind = "start_job_file") =>
        LET c == Head(tx_queue)
            s == Dispatch(w, c, 0, 0)
            cleared == /\ s.job_sent = 0 /\ s.job_ok = 0
                       /\ s.inflight = 0 /\ s.pending = <<>>
                       /\ ~s.job_paused /\ s.pc = "stream"
        IN  IF c.bad
            THEN /\ cleared /\ ~s.job_active /\ s.job_total = 0 /\ ~s.fh
                 /\ s.lastError = "Failed to start job"
                 /\ s.lastJobState = "idle" /\ s.lastProgress = <<0, 0>>
            ELSE /\ cleared /\ s.job_active /\ s.job_total = JobTotal /\ s.fh
                 /\ s.stream_mode = (IF c.mode = "buffered" THEN "buffered"
                                     ELSE "sync")
                 /\ s.lastJobState = "running"
                 /\ s.lastProgress = <<0, JobTotal>>

\* The start with the unknown mode has been accepted over a macro that was
\* run before it, and the job streams synchronously; the start of a file
\* that cannot be opened is next.
C35_Witness ==
    /\ cmdsLeft = {} /\ w.pc = "get" /\ tx_queue # <<>> /\ Head(tx_queue).bad
    /\ w.job_active /\ w.stream_mode = "sync" /\ w.job_sent > 0
    /\ w.lastJobState = "running"

\* C36: in every reachable state the acknowledged count is at most the sent
\* count.
C36_AckedAtMostSent == w.job_ok <= w.job_sent

\* C37: a pause_local, hold_local or resume_local that the engine takes off
\* the queue after the job it was meant for has ended publishes no job
\* state: the last one published stays idle.
C37_NoJobStateWithoutJob ==
    [][(/\ w.pc = "get" /\ tx_queue # <<>>
        /\ Head(tx_queue).kind \in {"pause_local", "hold_local", "resume_local"}
        /\ ~w.job_active /\ w.finishMsg # "none" /\ w.lastJobState = "idle"
        /\ w'.pc # "crashed") =>
         w'.lastJobState = "idle"]_vars

\* C38: the engine writes no job line in the loop iteration in which it
\* takes a shutdown command off the queue, nor in any later step of that
\* connection.
C38_NoLineAfterShutdown ==
    [][(/\ w'.conn = w.conn
        /\ \/ w.pc = "get" /\ tx_queue # <<>> /\ Head(tx_queue).kind = "shutdown"
           \/ disconnecting /\ \A i \in DOMAIN tx_queue : tx_queue[i].kind # "shutdown") =>
         w'.sentLog = w.sentLog]_vars

\* C39: when the worker thread has ended because the port did not open or
\* because a serial read failed, and the operator has not asked for a
\* disconnect, a connect request can create and start a new worker.
C39_ReconnectAfterFailure ==
    (/\ ~disconnecting /\ w.pc = "done"
     /\ \/ w.lastStep = <<"open", "failed", "-">>
        \/ w.lastError = "Serial read failed" /\ ~w.running) =>
        ENABLED Reconnect

====
